---------------------------- MODULE Spec2Model ----------------------------
(***************************************************************************)
(* A model of the two driver scripts of iree-torch:                        *)
(*                                                                         *)
(*   torchdynamo_poc/torchbench.py  the graph output normalizer            *)
(*       (_unwrap_single_tuple_return), the compile adapter                *)
(*       (torch_mlir_compiler and the forward closure it returns) and the  *)
(*       benchmark driver (run, main, main.compiler);                      *)
(*   torchscript_e2e_main.py  the recursive result conversion              *)
(*       (recursively_convert_to_numpy, IREEInvoker) and the test driver   *)
(*       (main).                                                           *)
(*                                                                         *)
(* Four specifications share the module, one per component:                *)
(*   SpecNorm   the normalizer applied repeatedly to one graph module;     *)
(*   SpecBench  the benchmark driver with the compile adapter inside it;   *)
(*   SpecConv   the backend invoker and its result conversion;             *)
(*   SpecTest   the test-suite driver.                                     *)
(* Each leaves the variables of the other components at their idle values. *)
(***************************************************************************)
EXTENDS Integers, Sequences, FiniteSets

VARIABLES
    \* ---- normalizer (SpecNorm) ----
    fx_g,        \* the torch.fx.GraphModule object the normalizer is applied to
    prev_g,      \* history: fx_g as it was before the last application
    orig_g,      \* history: fx_g as it was constructed
    ret,         \* what the last application returned or raised
    calls,       \* number of applications so far
    \* ---- the process of either driver (SpecBench, SpecTest) ----
    args,        \* the parsed command line
    pc,          \* where main is, or how the process ended
    stdout,      \* the lines the driver printed so far
    exit_status, \* the process's exit status, -1 while it runs
    \* ---- benchmark driver and compile adapter (SpecBench) ----
    iter,        \* run's loop variable _i: iterations completed
    compiles,    \* compiler callbacks made during the current func() call
    model,       \* [constructed, invoked]: the benchmark model object
    graph_in,    \* history: the graph handed to the last compiler callback
    graph_after, \* that same graph object after the callback (mutated in place)
    err,         \* the exception the last torch_mlir_compiler call raised, or "none"
    caught,      \* history: whether main.compiler's except clause handled err
    compiled,    \* the forward closure the last callback returned, or NoForward
    loaded_result, \* what loaded_module.forward returned in the last forward call
    fwd_result,  \* what forward returned in its last call
    \* ---- backend invoker (SpecConv) ----
    conv_pc,     \* "idle", then "returned" or "raised"
    iree_result, \* what self._iree_module[function_name](*args) returned
    invoke_ret,  \* what invoke returned, NoValue when it raised
    \* ---- test driver (SpecTest) ----
    tests,       \* the selected tests (their unique names, in registry order)
    iree_backend,\* the backend constructed, "none" before
    xfail_set,   \* the expected-failure set chosen
    results,     \* what run_tests returned: one [unique_name, outcome] per test run
    ran,         \* history: the tests handed to run_tests
    reported,    \* history: the arguments handed to report_results
    failed       \* what report_results returned

normVars == <<fx_g, prev_g, orig_g, ret, calls>>

procVars == <<args, pc, stdout, exit_status>>

benchVars == <<iter, compiles, model, graph_in, graph_after, err, caught,
               compiled, loaded_result, fwd_result>>

convVars == <<conv_pc, iree_result, invoke_ret>>

testVars == <<tests, iree_backend, xfail_set, results, ran, reported, failed>>

vars == <<normVars, procVars, benchVars, convVars, testVars>>

---------------------------------------------------------------------------
(***************************************************************************)
(* Bounds of the model.                                                    *)
(***************************************************************************)
\* longest tuple appearing as (part of) a graph's output argument
MaxTupleLen == 2
\* applications of the normalizer to one graph module
MaxCalls == 3
\* largest --iters value tried
MaxIters == 2
\* graphs torchdynamo captures (compiler callbacks) during one func() call
MaxGraphs == 2
\* size of a runtime result: the number of its containers and leaves
MaxSize == 4

---------------------------------------------------------------------------
(***************************************************************************)
(* torch.fx graphs.  An argument of a node is either another node (a bare  *)
(* value) or a tuple of arguments.  A node has an op and an args tuple.    *)
(* A GraphModule holds the graph's nodes and the code generated from them  *)
(* at the last recompile(): what its forward() returns.                    *)
(***************************************************************************)
NodeNames == {"x", "y"}

NodeArg(n) == [kind |-> "node", name |-> n]

TupleArg(s) == [kind |-> "tuple", elems |-> s]

IsTuple(a) == a.kind = "tuple"

\* all sequences over S of length 0..n
SeqsUpTo(S, n) == UNION {[1..k -> S] : k \in 0..n}

\* bare values
ArgLevel0 == {NodeArg(n) : n \in NodeNames}

\* bare values and tuples of bare values
ArgLevel1 == ArgLevel0 \cup {TupleArg(s) : s \in SeqsUpTo(ArgLevel0, MaxTupleLen)}

\* ... and tuples of those
ArgLevel2 == ArgLevel0 \cup {TupleArg(s) : s \in SeqsUpTo(ArgLevel1, MaxTupleLen)}

\* The args of an output node: one argument (what Graph.output() builds), or,
\* malformed, none or two.
OutputArgsWellFormed == {<<a>> : a \in ArgLevel2}

OutputArgsMalformed == {<<>>} \cup {<<a, b>> : a \in ArgLevel0, b \in ArgLevel0}

Node(op, a) == [op |-> op, args |-> a]

\* A graph: a placeholder, a call, and the output node last.
GraphNodes(outArgs) ==
    << Node("placeholder", <<>>),
       Node("call_function", <<NodeArg("x")>>),
       Node("output", outArgs) >>

\* The args of the (last) output node of a node list.
OutputArgs(nodes) ==
    LET outs == {i \in 1..Len(nodes) : nodes[i].op = "output"}
        last == CHOOSE i \in outs : \A j \in outs : j <= i
    IN  nodes[last].args

\* GraphModule.recompile(): regenerate the code from the graph.
Recompile(g) == [g EXCEPT !.code = OutputArgs(g.nodes)]

GraphModule(outArgs) == Recompile([nodes |-> GraphNodes(outArgs), code |-> <<>>])

GraphModulesWellFormed == {GraphModule(a) : a \in OutputArgsWellFormed}

GraphModules == GraphModulesWellFormed \cup {GraphModule(a) : a \in OutputArgsMalformed}

WellFormed(g) == Len(OutputArgs(g.nodes)) = 1

\* The graphs torchdynamo hands to the compiler callback in SpecBench, over
\* the single node x: the output is a bare value, a tuple of bare values, or a
\* one-element tuple holding either; or the output node is malformed.
CapturedOutputs ==
    LET flat == {NodeArg("x")}
                \cup {TupleArg(s) : s \in SeqsUpTo({NodeArg("x")}, MaxTupleLen)}
    IN  flat \cup {TupleArg(<<a>>) : a \in flat}

CapturedGraphs ==
    {GraphModule(<<a>>) : a \in CapturedOutputs}
    \cup {GraphModule(<<>>), GraphModule(<<NodeArg("x"), NodeArg("x")>>)}

\* The single argument of a well-formed graph's output node.
OutputArg(g) == OutputArgs(g.nodes)[1]

---------------------------------------------------------------------------
(***************************************************************************)
(* _unwrap_single_tuple_return (torchbench.py:31-50).                      *)
(* UnwrapLoop is the for loop over fx_g.graph.nodes from node i on, with   *)
(* the nodes as mutated so far and the unwrapped_tuple flag.  It yields    *)
(* how the loop ended ("AssertionError", "return None" inside the loop, or *)
(* "end"), the nodes and the flag.                                         *)
(***************************************************************************)
RECURSIVE UnwrapLoop(_, _, _)
UnwrapLoop(nodes, i, unwrapped_tuple) ==
    IF i > Len(nodes)
    THEN [how |-> "end", nodes |-> nodes, unwrapped_tuple |-> unwrapped_tuple]
    ELSE LET node == nodes[i] IN
         IF node.op # "output"
         THEN UnwrapLoop(nodes, i + 1, unwrapped_tuple)
         ELSE IF Len(node.args) # 1
         THEN [how |-> "AssertionError", nodes |-> nodes,
               unwrapped_tuple |-> unwrapped_tuple]
         ELSE LET node_arg == node.args[1] IN
              IF IsTuple(node_arg)
              THEN IF Len(node_arg.elems) = 1
                   THEN UnwrapLoop([nodes EXCEPT ![i].args = <<node_arg.elems[1]>>],
                                   i + 1, TRUE)
                   ELSE [how |-> "return None", nodes |-> nodes,
                         unwrapped_tuple |-> unwrapped_tuple]
              ELSE UnwrapLoop(nodes, i + 1, unwrapped_tuple)

\* Faulty variants of the function, against which the properties are tried.
\* This one never sets unwrapped_tuple (line 41 dropped).
UnwrapForgetsFlag(g) ==
    LET l == UnwrapLoop(g.nodes, 1, FALSE)
        mutated == [g EXCEPT !.nodes = l.nodes]
    IN  IF l.how = "AssertionError" THEN [ret |-> "AssertionError", fx_g |-> mutated]
        ELSE [ret |-> "None", fx_g |-> mutated]

\* This one takes the first element of any non-empty tuple (line 39 as len >= 1).
UnwrapAnyTuple(g) ==
    LET a == OutputArgs(g.nodes) IN
    IF Len(a) # 1 THEN [ret |-> "AssertionError", fx_g |-> g]
    ELSE IF IsTuple(a[1]) /\ Len(a[1].elems) >= 1
    THEN [ret |-> "graph",
          fx_g |-> Recompile([g EXCEPT !.nodes[Len(g.nodes)].args = <<a[1].elems[1]>>])]
    ELSE [ret |-> "None", fx_g |-> g]

\* This one unwraps two levels of one-element tuples at once.
UnwrapDeep(g) ==
    LET a == OutputArgs(g.nodes) IN
    IF Len(a) # 1 THEN [ret |-> "AssertionError", fx_g |-> g]
    ELSE IF IsTuple(a[1]) /\ Len(a[1].elems) = 1
    THEN LET e == a[1].elems[1]
             inner == IF IsTuple(e) /\ Len(e.elems) = 1 THEN e.elems[1] ELSE e
         IN  [ret |-> "graph",
              fx_g |-> Recompile([g EXCEPT !.nodes[Len(g.nodes)].args = <<inner>>])]
    ELSE [ret |-> "None", fx_g |-> g]

\* The whole function: [ret |-> "AssertionError" | "None" | "graph",
\* fx_g |-> the graph module object afterwards (it is mutated in place)].
_unwrap_single_tuple_return(g) ==
    LET l == UnwrapLoop(g.nodes, 1, FALSE)
        mutated == [g EXCEPT !.nodes = l.nodes]
    IN  IF l.how = "AssertionError" THEN [ret |-> "AssertionError", fx_g |-> mutated]
        ELSE IF l.how = "return None" \/ ~l.unwrapped_tuple
        THEN [ret |-> "None", fx_g |-> mutated]
        ELSE [ret |-> "graph", fx_g |-> Recompile(mutated)]

---------------------------------------------------------------------------
(***************************************************************************)
(* SpecNorm: the normalizer applied, up to MaxCalls times, to one graph    *)
(* module object.                                                          *)
(***************************************************************************)
NormIdle ==
    /\ fx_g = GraphModule(<<NodeArg("x")>>)
    /\ prev_g = fx_g
    /\ orig_g = fx_g
    /\ ret = "not called"
    /\ calls = 0

NormInit ==
    /\ fx_g \in GraphModules
    /\ prev_g = fx_g
    /\ orig_g = fx_g
    /\ ret = "not called"
    /\ calls = 0

Unwrap ==
    /\ calls < MaxCalls
    /\ LET r == _unwrap_single_tuple_return(fx_g) IN
       /\ fx_g' = r.fx_g
       /\ ret' = r.ret
    /\ prev_g' = fx_g
    /\ calls' = calls + 1
    /\ UNCHANGED orig_g
    /\ UNCHANGED <<procVars, benchVars, convVars, testVars>>

---------------------------------------------------------------------------
(***************************************************************************)
(* The compile adapter, torch_mlir_compiler (torchbench.py:53-71).         *)
(***************************************************************************)
NoneValue == [kind |-> "None"]

NoForward == [kind |-> "no forward"]

\* Where the external compile chain may raise: in ts_compiler,
\* torch_mlir.compile, compile_to_vmfb or load_vmfb; or nowhere.
Stages == {"ts_compiler", "torch_mlir.compile", "compile_to_vmfb", "load_vmfb"}

\* What loaded_module.forward may return for a module compiled from code that
\* returns `returns`: the value of that structure, and no value (None) or an
\* empty group when the structure is the empty group.
LoadedModuleForward(returns) ==
    IF returns = TupleArg(<<>>) THEN {NoneValue, returns} ELSE {returns}

\* The forward closure (lines 66-69), applied to what the loaded module returned.
\* Faulty variant: the result is never wrapped again (line 69 dropped).
ForwardNoRewrap(was_unwrapped, raw) ==
    IF raw = NoneValue THEN TupleArg(<<>>) ELSE raw

forward(was_unwrapped, raw) ==
    LET result == IF raw = NoneValue THEN TupleArg(<<>>) ELSE raw
    IN  IF was_unwrapped THEN TupleArg(<<result>>) ELSE result

\* torch_mlir_compiler(fx_graph, example_inputs, use_tracing), with `fails` the
\* stage of the external chain that raises ("none": none does).  It yields the
\* exception raised ("none" when it returns), the closure returned and the
\* caller's graph object afterwards.
torch_mlir_compiler(fx_graph, use_tracing, fails) ==
    LET u == _unwrap_single_tuple_return(fx_graph)
        was_unwrapped == u.ret = "graph"
        ts_compiler == IF use_tracing THEN "torch.jit.trace" ELSE "torch.jit.script"
    IN  IF u.ret = "AssertionError"
        THEN [raised |-> "AssertionError", forward |-> NoForward, fx_graph |-> u.fx_g]
        ELSE IF fails # "none"
        THEN [raised |-> fails, forward |-> NoForward, fx_graph |-> u.fx_g]
        ELSE [raised |-> "none",
              forward |-> [kind |-> "forward",
                           was_unwrapped |-> was_unwrapped,
                           ts_compiler |-> ts_compiler,
                           loaded_module |-> u.fx_g.code[1]],
              fx_graph |-> u.fx_g]

---------------------------------------------------------------------------
(***************************************************************************)
(* The benchmark driver: main, main.compiler and run (torchbench.py:74-114)*)
(***************************************************************************)
ProcIdle ==
    /\ args = [none |-> TRUE]
    /\ pc = "idle"
    /\ stdout = <<>>
    /\ exit_status = -1

BenchIdle ==
    /\ iter = 0
    /\ compiles = 0
    /\ model = [constructed |-> FALSE, invoked |-> 0]
    /\ graph_in = GraphModule(<<NodeArg("x")>>)
    /\ graph_after = graph_in
    /\ err = "none"
    /\ caught = FALSE
    /\ compiled = NoForward
    /\ loaded_result = NoneValue
    /\ fwd_result = NoneValue

BenchInit ==
    /\ args \in [model_found : BOOLEAN, iters : 0..MaxIters,
                 exit_on_error : BOOLEAN, trace : BOOLEAN]
    /\ pc = "main"
    /\ stdout = <<>>
    /\ exit_status = -1
    /\ BenchIdle

\* main up to the call of run (lines 94-103): the model is looked up; when it
\* is not found main prints and returns, and the process ends with status 0.
Main ==
    /\ pc = "main"
    /\ IF ~args.model_found
       THEN /\ stdout' = Append(stdout, "Model not found in torchbench.")
            /\ pc' = "returned"
            /\ exit_status' = 0
            /\ UNCHANGED model
       ELSE /\ model' = [model EXCEPT !.constructed = TRUE]
            /\ stdout' = Append(stdout, "Running model")
            /\ pc' = "loop"
            /\ UNCHANGED exit_status
    /\ UNCHANGED <<args, iter, compiles, graph_in, graph_after, err, caught,
                   compiled, loaded_result, fwd_result>>
    /\ UNCHANGED <<normVars, convVars, testVars>>

\* run's loop enters the optimize scope and calls func (lines 77-79).
BeginIter ==
    /\ pc = "loop"
    /\ iter < args.iters
    /\ pc' = "in_func"
    /\ model' = [model EXCEPT !.invoked = @ + 1]
    /\ compiles' = 0
    /\ UNCHANGED <<args, iter, stdout, exit_status, graph_in, graph_after, err,
                   caught, compiled, loaded_result, fwd_result>>
    /\ UNCHANGED <<normVars, convVars, testVars>>

\* What main.compiler (lines 105-112) does with the outcome r of
\* torch_mlir_compiler: [pc, exit_status, printed, caught].
\* Faulty variant: no try/except, whatever --exit-on-error says.
CompilerNeverCatches(exit_on_error, r) ==
    IF r.raised = "none"
    THEN [pc |-> "in_func", exit_status |-> -1, printed |-> <<>>, caught |-> FALSE]
    ELSE [pc |-> "raised", exit_status |-> 1, printed |-> <<>>, caught |-> FALSE]

\* Faulty variant: the except clause prints and does not exit (line 111 dropped).
CompilerPrintsAndContinues(exit_on_error, r) ==
    IF r.raised = "none"
    THEN [pc |-> "in_func", exit_status |-> -1, printed |-> <<>>, caught |-> FALSE]
    ELSE IF exit_on_error
    THEN [pc |-> "in_func", exit_status |-> -1, printed |-> <<r.raised>>,
          caught |-> TRUE]
    ELSE [pc |-> "raised", exit_status |-> 1, printed |-> <<>>, caught |-> FALSE]

compiler(exit_on_error, r) ==
    IF r.raised = "none"
    THEN [pc |-> "in_func", exit_status |-> -1, printed |-> <<>>, caught |-> FALSE]
    ELSE IF exit_on_error
    THEN [pc |-> "exited", exit_status |-> 1, printed |-> <<r.raised>>,
          caught |-> TRUE]
    ELSE [pc |-> "raised", exit_status |-> 1, printed |-> <<>>, caught |-> FALSE]

\* torchdynamo captures a graph during func and calls the compiler callback.
CompilerCallback ==
    /\ pc = "in_func"
    /\ compiles < MaxGraphs
    /\ \E graph \in CapturedGraphs, fails \in Stages \cup {"none"} :
         LET r == torch_mlir_compiler(graph, args.trace, fails)
             c == compiler(args.exit_on_error, r)
         IN  /\ graph_in' = graph
             /\ graph_after' = r.fx_graph
             /\ err' = r.raised
             /\ compiled' = r.forward
             /\ pc' = c.pc
             /\ exit_status' = c.exit_status
             /\ stdout' = stdout \o c.printed
             /\ caught' = c.caught
    /\ compiles' = compiles + 1
    /\ loaded_result' = NoneValue
    /\ fwd_result' = NoneValue
    /\ UNCHANGED <<args, iter, model>>
    /\ UNCHANGED <<normVars, convVars, testVars>>

\* torchdynamo runs the compiled forward function in place of the graph.
CallForward ==
    /\ pc = "in_func"
    /\ compiled # NoForward
    /\ \E raw \in LoadedModuleForward(compiled.loaded_module) :
         /\ loaded_result' = raw
         /\ fwd_result' = forward(compiled.was_unwrapped, raw)
    /\ pc' = "called"
    /\ UNCHANGED <<args, iter, compiles, stdout, exit_status, model, graph_in,
                   graph_after, err, caught, compiled>>
    /\ UNCHANGED <<normVars, convVars, testVars>>

\* forward returned; func goes on.
ForwardReturns ==
    /\ pc = "called"
    /\ pc' = "in_func"
    /\ UNCHANGED <<args, iter, compiles, stdout, exit_status, model, graph_in,
                   graph_after, err, caught, compiled, loaded_result, fwd_result>>
    /\ UNCHANGED <<normVars, convVars, testVars>>

\* func returns and the optimize scope is left; the loop goes on.
EndIter ==
    /\ pc = "in_func"
    /\ pc' = "loop"
    /\ iter' = iter + 1
    /\ UNCHANGED <<args, compiles, stdout, exit_status, model, graph_in,
                   graph_after, err, caught, compiled, loaded_result, fwd_result>>
    /\ UNCHANGED <<normVars, convVars, testVars>>

\* The loop is over: run prints the elapsed time (line 81) and main returns.
Finish ==
    /\ pc = "loop"
    /\ iter = args.iters
    /\ stdout' = Append(stdout, "Finished in")
    /\ pc' = "returned"
    /\ exit_status' = 0
    /\ UNCHANGED <<args, iter, compiles, model, graph_in, graph_after, err,
                   caught, compiled, loaded_result, fwd_result>>
    /\ UNCHANGED <<normVars, convVars, testVars>>

---------------------------------------------------------------------------
(***************************************************************************)
(* Runtime results (torchscript_e2e_main.py:57-84).  A Python value is a   *)
(* leaf [type, data] or a container: a tuple or list [type, items], or a   *)
(* dict [type, keys, items] whose k-th key maps to its k-th item.          *)
(***************************************************************************)
\* The leaf types tried: the five the conversion accepts (bool is a subclass
\* of int), and two it does not know.
LeafTypes == {"DeviceArray", "str", "float", "int", "bool", "NoneType", "ndarray"}

Leaf(t) == [type |-> t, data |-> "d"]

KeyNames == <<"a", "b", "c", "d", "e", "f">>

Container(t, items) ==
    IF t = "dict"
    THEN [type |-> t, keys |-> SubSeq(KeyNames, 1, Len(items)), items |-> items]
    ELSE [type |-> t, items |-> items]

ContainerTypes == {"tuple", "list", "dict"}

\* ItemSeqs[n]: the item sequences of total size exactly n.  A value of size
\* k is a leaf (k = 1) or a container of items of total size k - 1.
ItemSeqs[n \in 0..MaxSize] ==
    LET ValuesOf(k) ==
            (IF k = 1 THEN {Leaf(t) : t \in LeafTypes} ELSE {})
            \cup {Container(t, s) : t \in ContainerTypes, s \in ItemSeqs[k - 1]}
    IN  IF n = 0 THEN {<<>>}
        ELSE UNION {{<<v>> \o s : v \in ValuesOf(k), s \in ItemSeqs[n - k]} : k \in 1..n}

\* The values of size exactly n.
ValuesOfSize(n) ==
    (IF n = 1 THEN {Leaf(t) : t \in LeafTypes} ELSE {})
    \cup {Container(t, s) : t \in ContainerTypes, s \in ItemSeqs[n - 1]}

\* isinstance(o, cls), with bool the subclass of int that it is in Python.
IsInstance(o, cls) == o.type = cls \/ (cls = "int" /\ o.type = "bool")

\* The exception line 73 raises, as the outcome of a conversion.
Raised == [type |-> "Exception"]

NoValue == [type |-> "no value"]

\* A tuple, list or dict comprehension over converted items: it raises when
\* the conversion of an item does.
Rebuild(o, converted) ==
    IF \E k \in 1..Len(converted) : converted[k] = Raised
    THEN Raised
    ELSE [o EXCEPT !.items = converted]

\* Faulty variant of the conversion: a leaf of an unknown type passes through
\* instead of raising (line 73 as return o).
RECURSIVE ConvertCoercesUnknown(_)
ConvertCoercesUnknown(o) ==
    IF o.type = "DeviceArray" THEN [type |-> "ndarray", data |-> o.data]
    ELSE IF o.type \in ContainerTypes
    THEN [o EXCEPT !.items = [k \in 1..Len(o.items) |-> ConvertCoercesUnknown(o.items[k])]]
    ELSE o

RECURSIVE recursively_convert_to_numpy(_)
recursively_convert_to_numpy(o) ==
    IF IsInstance(o, "DeviceArray")
    THEN [type |-> "ndarray", data |-> o.data]                   \* np.asarray(o)
    ELSE IF IsInstance(o, "tuple")
    THEN Rebuild(o, [k \in 1..Len(o.items) |-> recursively_convert_to_numpy(o.items[k])])
    ELSE IF IsInstance(o, "list")
    THEN Rebuild(o, [k \in 1..Len(o.items) |-> recursively_convert_to_numpy(o.items[k])])
    ELSE IF IsInstance(o, "dict")
    THEN Rebuild(o, [k \in 1..Len(o.items) |-> recursively_convert_to_numpy(o.items[k])])
    ELSE IF IsInstance(o, "str") THEN o
    ELSE IF IsInstance(o, "float") THEN o
    ELSE IF IsInstance(o, "int") THEN o
    ELSE Raised

ConvIdle ==
    /\ conv_pc = "idle"
    /\ iree_result = NoValue
    /\ invoke_ret = NoValue

\* IREEInvoker.__getattr__'s invoke (lines 81-83): the runtime function is
\* called and what it returns is converted.
Invoke ==
    /\ conv_pc = "idle"
    /\ \E n \in 1..MaxSize : \E result \in ValuesOfSize(n) :
         LET r == recursively_convert_to_numpy(result) IN
         /\ iree_result' = result
         /\ IF r = Raised
            THEN conv_pc' = "raised" /\ invoke_ret' = NoValue
            ELSE conv_pc' = "returned" /\ invoke_ret' = r
    /\ UNCHANGED <<normVars, procVars, benchVars, testVars>>

---------------------------------------------------------------------------
(***************************************************************************)
(* The test driver (torchscript_e2e_main.py:36-54, 124-171).               *)
(***************************************************************************)
COMMON_TORCH_MLIR_LOWERING_XFAIL_SET ==
    {"MobilenetV3Module_basic", "QuantizedMLP_basic", "TableBatchEmbeddingModule_basic"}

COMMON_RNG_XFAIL_SET ==
    {"DropoutTrainModule_basic", "UniformModule_basic", "UniformStaticModule_basic",
     "BernoulliModule_basic", "BernoulliZerosModule_basic", "BernoulliOnesModule_basic",
     "BernoulliFloatModule_basic", "BernoulliTensorModule_basic"}

DYLIB_XFAIL_SET == COMMON_TORCH_MLIR_LOWERING_XFAIL_SET \cup COMMON_RNG_XFAIL_SET

VMVX_XFAIL_SET == COMMON_TORCH_MLIR_LOWERING_XFAIL_SET \cup COMMON_RNG_XFAIL_SET

\* The registry register_all_tests() filled: the unique names, in order.
GLOBAL_TEST_REGISTRY ==
    <<"MmModule_basic", "QuantizedMLP_basic", "UniformModule_basic",
      "ElementwiseAddModule_basic">>

\* The --filter values tried.
Filters == {".*", "Quantized", "Mm.*", ".*Module_basic", "Foo.*", "basic"}

\* re.match(filter, unique_name): a match anchored at the start of the name.
ReMatch(filter, unique_name) ==
    CASE filter = ".*" -> TRUE
      [] filter = "Quantized" -> unique_name = "QuantizedMLP_basic"
      [] filter = "Mm.*" -> unique_name = "MmModule_basic"
      [] filter = ".*Module_basic" ->
            unique_name \in {"MmModule_basic", "UniformModule_basic",
                             "ElementwiseAddModule_basic"}
      [] filter = "Foo.*" -> FALSE
      [] filter = "basic" -> FALSE

\* [x for x in seq if re.match(filter, x)]
RECURSIVE SelectFrom(_, _)
SelectFrom(seq, filter) ==
    IF seq = <<>> THEN <<>>
    ELSE (IF ReMatch(filter, Head(seq)) THEN <<Head(seq)>> ELSE <<>>)
         \o SelectFrom(Tail(seq), filter)

\* What run_tests may return for the tests handed to it: each test, in order,
\* with the outcome of comparing its run to the golden result.
RunTests(ts) ==
    {[k \in 1..Len(ts) |-> [unique_name |-> ts[k], outcome |-> o[k]]] :
        o \in [1..Len(ts) -> {"pass", "fail"}]}

\* What report_results may return.  It reports whether the run had unexpected
\* results: it is true when a test outside expected_failures failed, false
\* when every outcome is the expected one; whether a passing test inside
\* expected_failures makes it true is the reporting library's policy.
ReportResults(rs, expected_failures) ==
    LET unexpectedFail == \E k \in 1..Len(rs) :
            rs[k].outcome = "fail" /\ rs[k].unique_name \notin expected_failures
        unexpectedPass == \E k \in 1..Len(rs) :
            rs[k].outcome = "pass" /\ rs[k].unique_name \in expected_failures
    IN  IF unexpectedFail THEN {TRUE}
        ELSE IF unexpectedPass THEN {TRUE, FALSE}
        ELSE {FALSE}

TestIdle ==
    /\ tests = <<>>
    /\ iree_backend = "none"
    /\ xfail_set = {}
    /\ results = <<>>
    /\ ran = <<>>
    /\ reported = [called |-> FALSE]
    /\ failed = FALSE

TestInit ==
    /\ args \in [config : {"dylib", "vmvx"}, filter : Filters, verbose : BOOLEAN]
    /\ pc = "main"
    /\ stdout = <<>>
    /\ exit_status = -1
    /\ TestIdle

\* The test selection of lines 148-151.
\* Faulty variant: the filter is ignored.
SelectEverything(registry, filter) == registry

SelectTests(registry, filter) == SelectFrom(registry, filter)

\* Lines 147-159: the tests are selected; when there are none the driver
\* prints the error and the registered names and exits with status 1.
MainSelect ==
    /\ pc = "main"
    /\ tests' = SelectTests(GLOBAL_TEST_REGISTRY, args.filter)
    /\ IF Len(tests') = 0
       THEN /\ stdout' = stdout
                  \o <<"ERROR: the provided filter does not match any tests",
                       "The available tests are:">>
                  \o GLOBAL_TEST_REGISTRY
            /\ exit_status' = 1
            /\ pc' = "exited"
       ELSE /\ pc' = "selected"
            /\ UNCHANGED <<stdout, exit_status>>
    /\ UNCHANGED <<args, iree_backend, xfail_set, results, ran, reported, failed>>
    /\ UNCHANGED <<normVars, benchVars, convVars>>

\* The expected-failure set of the chosen config (lines 161-166).
XfailSetOf(config) ==
    IF config = "dylib" THEN DYLIB_XFAIL_SET ELSE VMVX_XFAIL_SET

\* Lines 161-168: the backend and the expected-failure set of the config.
MainConfig ==
    /\ pc = "selected"
    /\ iree_backend' = args.config
    /\ xfail_set' = XfailSetOf(args.config)
    /\ pc' = "configured"
    /\ UNCHANGED <<args, stdout, exit_status, tests, results, ran, reported, failed>>
    /\ UNCHANGED <<normVars, benchVars, convVars>>

\* Line 169: the selected tests are run.
MainRunTests ==
    /\ pc = "configured"
    /\ ran' = tests
    /\ results' \in RunTests(tests)
    /\ pc' = "ran"
    /\ UNCHANGED <<args, stdout, exit_status, tests, iree_backend, xfail_set,
                   reported, failed>>
    /\ UNCHANGED <<normVars, benchVars, convVars>>

\* The status of line 171.
\* Faulty variant: the two statuses swapped.
ExitStatusInverted(f) == IF f THEN 0 ELSE 1

ExitStatusOf(f) == IF f THEN 1 ELSE 0

\* Lines 170-171: the results are reported and the process exits.
MainReport ==
    /\ pc = "ran"
    /\ reported' = [called |-> TRUE, results |-> results,
                    expected_failures |-> xfail_set, verbose |-> args.verbose]
    /\ failed' \in ReportResults(results, xfail_set)
    /\ exit_status' = ExitStatusOf(failed')
    /\ pc' = "exited"
    /\ UNCHANGED <<args, stdout, tests, iree_backend, xfail_set, results, ran>>
    /\ UNCHANGED <<normVars, benchVars, convVars>>

---------------------------------------------------------------------------
(***************************************************************************)
(* The specifications.                                                     *)
(***************************************************************************)
InitNorm == NormInit /\ ProcIdle /\ BenchIdle /\ ConvIdle /\ TestIdle

NextNorm == Unwrap

SpecNorm == InitNorm /\ [][NextNorm]_vars

InitBench == NormIdle /\ BenchInit /\ ConvIdle /\ TestIdle

NextBench ==
    \/ Main
    \/ BeginIter
    \/ CompilerCallback
    \/ CallForward
    \/ ForwardReturns
    \/ EndIter
    \/ Finish

SpecBench == InitBench /\ [][NextBench]_vars

InitConv == NormIdle /\ ProcIdle /\ BenchIdle /\ ConvIdle /\ TestIdle

NextConv == Invoke

SpecConv == InitConv /\ [][NextConv]_vars

InitTest == NormIdle /\ TestInit /\ BenchIdle /\ ConvIdle

NextTest ==
    \/ MainSelect
    \/ MainConfig
    \/ MainRunTests
    \/ MainReport

SpecTest == InitTest /\ [][NextTest]_vars

---------------------------------------------------------------------------
(***************************************************************************)
(* The properties checked.                                                 *)
(***************************************************************************)
Range(seq) == {seq[k] : k \in 1..Len(seq)}

IsOneTuple(a) == IsTuple(a) /\ Len(a.elems) = 1

\* C1 (SpecBench): whenever the forward function returned by
\* torch_mlir_compiler has been invoked, its result has the group-or-bare
\* shape of the output of the graph as it was handed to the compiler; the
\* closure remembers an unwrapping exactly when that output was a one-element
\* group, and the result is the loaded module's result, with None replaced by
\* the empty tuple, wrapped in a one-element tuple when unwrapping happened
\* and as is otherwise.
C1_RoundTrip ==
    pc = "called" =>
        LET orig == OutputArg(graph_in)
            result == IF loaded_result = NoneValue THEN TupleArg(<<>>) ELSE loaded_result
        IN  /\ IsTuple(fwd_result) = IsTuple(orig)
            /\ compiled.was_unwrapped = IsOneTuple(orig)
            /\ fwd_result = IF compiled.was_unwrapped THEN TupleArg(<<result>>) ELSE result

\* C1's case: the graph returned a one-element group holding the empty group,
\* the loaded module returned None, and forward returned ((),).
C1_Witness ==
    /\ pc = "called"
    /\ compiled.was_unwrapped
    /\ loaded_result = NoneValue
    /\ fwd_result = TupleArg(<<TupleArg(<<>>)>>)

\* C2 (SpecNorm): applied to a graph whose output node's single argument is a
\* one-element tuple, _unwrap_single_tuple_return returns the graph, and the
\* graph's output argument is then that tuple's sole element.
C2_UnwrapsOneTuple ==
    (calls >= 1 /\ WellFormed(prev_g) /\ IsOneTuple(OutputArg(prev_g))) =>
        /\ ret = "graph"
        /\ OutputArgs(fx_g.nodes) = <<OutputArg(prev_g).elems[1]>>

\* C2's case: a one-element tuple holding a two-element tuple was unwrapped.
C2_Witness ==
    /\ calls = 1
    /\ WellFormed(prev_g)
    /\ OutputArg(prev_g) = TupleArg(<<TupleArg(<<NodeArg("x"), NodeArg("y")>>)>>)
    /\ ret = "graph"
    /\ OutputArg(fx_g) = TupleArg(<<NodeArg("x"), NodeArg("y")>>)

\* C3 (SpecNorm): applied to a graph whose output is not a one-element group
\* (a bare value, or a tuple of no, two or more elements),
\* _unwrap_single_tuple_return returns None and leaves the graph as it was.
C3_NoRewrite ==
    (calls >= 1 /\ WellFormed(prev_g) /\ ~IsOneTuple(OutputArg(prev_g))) =>
        /\ ret = "None"
        /\ fx_g = prev_g

\* C3's case: a two-element output was left alone.
C3_Witness ==
    /\ calls = 1
    /\ WellFormed(prev_g)
    /\ IsTuple(OutputArg(prev_g))
    /\ Len(OutputArg(prev_g).elems) = 2
    /\ ret = "None"

\* C4 as stated (SpecNorm): a second application to a graph already
\* normalized performs no rewrite and returns None, whatever the sole element
\* of the original one-element group is.
C4_IdempotentAsStated ==
    (calls = 2 /\ WellFormed(orig_g)) =>
        /\ ret = "None"
        /\ fx_g = prev_g

\* C4 as amended (SpecNorm): a second application to a graph already
\* normalized performs no rewrite and returns None, unless the original
\* output was a one-element group whose sole element is itself a one-element
\* group: then the second application unwraps that group too.
C4_IdempotentUnlessNested ==
    (calls = 2 /\ WellFormed(orig_g)) =>
        LET nested == /\ IsOneTuple(OutputArg(orig_g))
                      /\ IsOneTuple(OutputArg(orig_g).elems[1])
        IN  IF nested
            THEN /\ ret = "graph"
                 /\ OutputArg(fx_g) = OutputArg(orig_g).elems[1].elems[1]
            ELSE /\ ret = "None"
                 /\ fx_g = prev_g

\* C4's case: a one-element group holding a two-element group was normalized,
\* and the second application returned None.
C4_Witness ==
    /\ calls = 2
    /\ WellFormed(orig_g)
    /\ IsOneTuple(OutputArg(orig_g))
    /\ IsTuple(OutputArg(orig_g).elems[1])
    /\ Len(OutputArg(orig_g).elems[1].elems) = 2
    /\ ret = "None"
    /\ fx_g = prev_g

\* The leaf types of a runtime result.
RECURSIVE LeafTypesOf(_)
LeafTypesOf(o) ==
    IF o.type \in ContainerTypes
    THEN UNION {LeafTypesOf(o.items[k]) : k \in 1..Len(o.items)}
    ELSE {o.type}

\* Whether `out` is `in` with its runtime-native arrays replaced by portable
\* arrays and nothing else changed.
RECURSIVE SameButArrays(_, _)
SameButArrays(in, out) ==
    IF in.type \in ContainerTypes
    THEN /\ out.type = in.type
         /\ Len(out.items) = Len(in.items)
         /\ in.type = "dict" => out.keys = in.keys
         /\ \A k \in 1..Len(in.items) : SameButArrays(in.items[k], out.items[k])
    ELSE IF in.type = "DeviceArray"
    THEN out = [type |-> "ndarray", data |-> in.data]
    ELSE out = in

\* C5 (SpecConv): the conversion of a runtime result succeeds exactly when
\* every leaf, at any depth, is a runtime-native array, a string, a float or
\* an integer (a bool is an integer); on success the output has the input's
\* nesting, container kinds, keys and sizes, array leaves replaced by portable
\* arrays and the other leaves unchanged; otherwise the call raises and
\* returns nothing.
C5_Conversion ==
    conv_pc # "idle" =>
        /\ (conv_pc = "returned") <=>
              (LeafTypesOf(iree_result) \subseteq {"DeviceArray", "str", "float", "int", "bool"})
        /\ conv_pc = "returned" => SameButArrays(iree_result, invoke_ret)
        /\ conv_pc = "raised" => invoke_ret = NoValue

\* C5's case: a dict of a list holding an array, and a string, was converted.
C5_Witness ==
    /\ conv_pc = "returned"
    /\ iree_result = Container("dict", <<Container("list", <<Leaf("DeviceArray")>>),
                                         Leaf("str")>>)
    /\ invoke_ret = Container("dict", <<Container("list", <<Leaf("ndarray")>>),
                                        Leaf("str")>>)

\* C6 as stated (SpecBench): when the named model is not found the benchmark
\* driver ends with exit status 1, without constructing or invoking a model.
C6_NotFoundExitsWithOne ==
    (pc # "main" /\ ~args.model_found) =>
        /\ exit_status = 1
        /\ ~model.constructed
        /\ model.invoked = 0

\* C7 (SpecBench): once torch_mlir_compiler has raised, the process is over.
\* With exit-on-error the exception was caught and printed last and the exit
\* status is 1; without it the exception propagated uncaught.  Either way no
\* elapsed-time report is printed, and no iteration follows.
C7_CompilerError ==
    err # "none" =>
        /\ "Finished in" \notin Range(stdout)
        /\ model.invoked = iter + 1
        /\ IF args.exit_on_error
           THEN /\ pc = "exited"
                /\ caught
                /\ exit_status = 1
                /\ stdout # <<>> /\ stdout[Len(stdout)] = err
           ELSE /\ pc = "raised"
                /\ ~caught
                /\ err \notin Range(stdout)

\* C7's case: in the second iteration torch_mlir.compile raised and the
\* driver, with exit-on-error set, exited.
C7_Witness ==
    /\ err = "torch_mlir.compile"
    /\ args.exit_on_error
    /\ iter = 1
    /\ pc = "exited"
    /\ exit_status = 1

\* Whether a test outside the expected-failure set failed, and whether every
\* outcome is the expected one.
UnexpectedFailure ==
    \E k \in 1..Len(results) :
        results[k].outcome = "fail" /\ results[k].unique_name \notin xfail_set

AllAsExpected ==
    \A k \in 1..Len(results) :
        (results[k].outcome = "fail") <=> (results[k].unique_name \in xfail_set)

\* C8 as stated (SpecTest): the exit status is 1 if no test was selected or an
\* unexpected failure occurred, and 0 otherwise.
C8_ExitStatusAsStated ==
    pc = "exited" =>
        exit_status = IF Len(tests) = 0 \/ UnexpectedFailure THEN 1 ELSE 0

\* C8 as amended (SpecTest): the exit status is 1 if no test was selected or
\* an unexpected failure occurred, 0 if tests were selected and each outcome
\* is the expected one (a pass outside the expected-failure set, a failure
\* inside it), and otherwise (only unexpected passes) what report_results
\* decides; the expected-failure set is the chosen backend's, is handed to
\* report_results only, and the tests selected and run do not depend on it.
C8_ExitStatus ==
    pc = "exited" =>
        /\ (Len(tests) = 0 \/ UnexpectedFailure) => exit_status = 1
        /\ (Len(tests) > 0 /\ AllAsExpected) => exit_status = 0
        /\ Len(tests) > 0 =>
              /\ exit_status = IF failed THEN 1 ELSE 0
              /\ reported.called
              /\ reported.expected_failures =
                    (IF args.config = "dylib" THEN DYLIB_XFAIL_SET ELSE VMVX_XFAIL_SET)
              /\ reported.results = results
              /\ ran = tests
              /\ [k \in 1..Len(results) |-> results[k].unique_name] = tests
        /\ \A k \in 1..Len(GLOBAL_TEST_REGISTRY) :
              ReMatch(args.filter, GLOBAL_TEST_REGISTRY[k])
                  <=> GLOBAL_TEST_REGISTRY[k] \in Range(tests)

\* C8's case: the one selected test is in the expected-failure set, was run
\* and failed, and the driver exited with status 0.
C8_Witness ==
    /\ pc = "exited"
    /\ tests = <<"QuantizedMLP_basic">>
    /\ results = <<[unique_name |-> "QuantizedMLP_basic", outcome |-> "fail"]>>
    /\ exit_status = 0

\* C9 (SpecTest): with a filter that matches no registered test, the driver
\* prints the error and then the name of every registered test, and exits
\* with status 1; no backend is constructed and no test is run or reported.
C9_EmptyMatch ==
    (pc # "main" /\ \A k \in 1..Len(GLOBAL_TEST_REGISTRY) :
                        ~ReMatch(args.filter, GLOBAL_TEST_REGISTRY[k])) =>
        /\ pc = "exited"
        /\ exit_status = 1
        /\ stdout = <<"ERROR: the provided filter does not match any tests",
                      "The available tests are:">> \o GLOBAL_TEST_REGISTRY
        /\ iree_backend = "none"
        /\ ran = <<>>
        /\ results = <<>>
        /\ ~reported.called

\* C9's case: the filter "basic" matches at the start of no name.
C9_Witness ==
    /\ pc = "exited"
    /\ args.filter = "basic"
    /\ tests = <<>>
    /\ Len(stdout) = 2 + Len(GLOBAL_TEST_REGISTRY)

\* C10 as stated (SpecBench): the assertion failure of a malformed output
\* node is never caught, exit-on-error included.
C10_NeverCaughtAsStated ==
    err = "AssertionError" => (~caught /\ pc = "raised")

\* C10 as amended (SpecBench): a compiler callback on a graph whose output
\* node does not carry exactly one argument fails with the assertion error,
\* which leaves the compile adapter, and the process ends there: without
\* exit-on-error uncaught, with exit-on-error caught by the compiler callback
\* like any compilation exception, printed, with exit status 1.
C10_AssertionFatal ==
    /\ ~WellFormed(graph_in) <=> err = "AssertionError"
    /\ err = "AssertionError" =>
          /\ compiled = NoForward
          /\ IF args.exit_on_error
             THEN /\ caught
                  /\ pc = "exited"
                  /\ exit_status = 1
                  /\ stdout[Len(stdout)] = "AssertionError"
             ELSE /\ ~caught
                  /\ pc = "raised"

\* C10's case: an output node with two arguments, under exit-on-error.
C10_Witness ==
    /\ Len(OutputArgs(graph_in.nodes)) = 2
    /\ err = "AssertionError"
    /\ args.exit_on_error
    /\ caught
    /\ pc = "exited"

=============================================================================
